---- MODULE Spec2Model ----
(***************************************************************************)
(* Model of src/ircd/proto.rs of matrirc: the outbound message builders,   *)
(* the Write Loop (ircd_sync_write) and the Read Loop (ircd_sync_read).    *)
(*                                                                         *)
(* A Rust String is modelled as the sequence of its characters, each a     *)
(* Unicode code point; its byte length is the sum of the UTF-8 widths.     *)
(* Option<T> is modelled as a sequence: <<>> is None, <<x>> is Some(x).    *)
(***************************************************************************)
EXTENDS Integers, Sequences, FiniteSets, TLC

VARIABLES
    call,        \* builder harness: the last builder call and its arguments
    ret,         \* builder harness: what that call returned (a sequence of messages)
    rpc,         \* Read Loop position (the await point it is suspended at)
    rres,        \* Read Loop result: "running", "Ok", "Err", or "Panic"
    rmsg,        \* Option: the inbound message the Read Loop is handling
                 \* (kept when its handling ended the loop)
    rout,        \* Option: the message the Read Loop is enqueueing
    nread,       \* number of inbound messages read so far
    forwarded,   \* history of the deliver-to-backend (to_matrix) calls
    stream,      \* the transport's receive half: "open", "ended" or "failed"
    warned,      \* history of the warn! lines the Read Loop logged
    queue,       \* the Outbound Queue (mpsc channel buffer)
    enq,         \* history of every message placed onto the Outbound Queue
    wpc,         \* Write Loop position
    wres,        \* Write Loop result: "running", "Ok" or "Err"
    wmsg,        \* Option: the message the Write Loop dequeued and is sending
    wire,        \* history of the messages written to the transport's send half
    writing,     \* set of tasks with a transport write in progress
    closed,      \* TRUE once the send half has been closed
    bout,        \* backend-facing layer: messages it still has to enqueue
    nrelay,      \* number of backend-originated operations so far
    senders      \* "open", or "dropped" once every producer handle is gone

vars == <<call, ret, rpc, rres, rmsg, rout, nread, forwarded, stream, warned, queue, enq,
          wpc, wres, wmsg, wire, writing, closed, bout, nrelay, senders>>

buildVars == <<call, ret>>
readVars  == <<rpc, rres, rmsg, rout, nread, forwarded, stream, warned>>
writeVars == <<wpc, wres, wmsg, wire, writing, closed>>
backVars  == <<bout, nrelay, senders>>

(***************************************************************************)
(* Bounds                                                                  *)
(***************************************************************************)
MaxNickLen == 7      \* characters in a nickname handed to the builders
MaxTextLen == 3      \* characters in the text of an OutboundChatEvent
MaxInbound == 2      \* inbound messages the Read Loop reads
MaxRelay   == 1      \* backend-originated operations
QueueCap   == 1      \* capacity of the Outbound Queue

(***************************************************************************)
(* Characters and strings                                                  *)
(***************************************************************************)
LF  == 10            \* '\n'
SOH == 1             \* '\u{001}'
UserLen == 6         \* bytes kept for the user field

\* "\u{001}ACTION "
ActionMarker == <<SOH, 65, 67, 84, 73, 79, 78, 32>>
\* "matrirc"
Matrirc == <<109, 97, 116, 114, 105, 114, 99>>
\* "Could not forward: "
CouldNotForward == <<67, 111, 117, 108, 100, 32, 110, 111, 116, 32,
                     102, 111, 114, 119, 97, 114, 100, 58, 32>>

\* UTF-8 width of a code point
Utf8Len(c) == IF c < 128 THEN 1 ELSE IF c < 2048 THEN 2 ELSE IF c < 65536 THEN 3 ELSE 4

\* String::len: the length in bytes
RECURSIVE len(_)
len(s) == IF s = <<>> THEN 0 ELSE Utf8Len(Head(s)) + len(Tail(s))

min(a, b) == IF a < b THEN a ELSE b

\* str::is_char_boundary: byte index n falls between two characters
is_char_boundary(s, n) == \E k \in 0..Len(s) : len(SubSeq(s, 1, k)) = n

\* s[..n] where n is a char boundary: the characters held in the first n bytes
slice_to(s, n) == SubSeq(s, 1, CHOOSE k \in 0..Len(s) : len(SubSeq(s, 1, k)) = n)

\* str::split(sep): the segments between separators, at least one
RECURSIVE split(_, _)
split(s, sep) ==
    IF \A i \in 1..Len(s) : s[i] # sep
    THEN <<s>>
    ELSE LET i == CHOOSE i \in 1..Len(s) :
                      s[i] = sep /\ \A j \in 1..(i - 1) : s[j] # sep
         IN <<SubSeq(s, 1, i - 1)>> \o split(SubSeq(s, i + 1, Len(s)), sep)

\* str::strip_prefix: Some(rest) when s starts with p, else None
strip_prefix(s, p) ==
    IF Len(s) >= Len(p) /\ SubSeq(s, 1, Len(p)) = p
    THEN <<SubSeq(s, Len(p) + 1, Len(s))>>
    ELSE <<>>

\* all strings over alphabet A of at most n characters
StringsUpTo(A, n) == UNION {[1..k -> A] : k \in 0..n}

(***************************************************************************)
(* Wire commands and the message builders                                  *)
(***************************************************************************)
PING(server, server2)  == [name |-> "PING", server |-> server, server2 |-> server2]
PONG(server, server2)  == [name |-> "PONG", server |-> server, server2 |-> server2]
PRIVMSG(target, msg)   == [name |-> "PRIVMSG", target |-> target, msg |-> msg]
NOTICE(target, msg)    == [name |-> "NOTICE", target |-> target, msg |-> msg]
ERROR(reason)          == [name |-> "ERROR", reason |-> reason]
Raw(cmd, params)       == [name |-> "Raw", cmd |-> cmd, params |-> params]

\* Prefix::Nickname(nick, user, host)
Nickname(nick, user, host) == [nick |-> nick, user |-> user, host |-> host]

\* the outcome of a builder whose slice index is not a char boundary
Panicked == [panic |-> "byte index is not a char boundary"]
IsPanic(m) == "panic" \in DOMAIN m

message_of(prefix, command) ==
    LET p == prefix
        n == min(len(p), UserLen)
    IN IF ~is_char_boundary(p, n)
       THEN Panicked
       ELSE [tags    |-> <<>>,
             prefix  |-> <<Nickname(p, slice_to(p, n), Matrirc)>>,
             command |-> command]

message_of_noprefix_Prefixed(command) ==
    [tags |-> <<>>, prefix |-> <<Nickname(Matrirc, Matrirc, Matrirc)>>, command |-> command]

message_of_noprefix(command) ==
    [tags |-> <<>>, prefix |-> <<>>, command |-> command]

raw_msg(msg) == message_of_noprefix(Raw(msg, <<>>))

pong_DropsSecond(server, server2) == message_of_noprefix(PONG(server, <<>>))

pong(server, server2) == message_of_noprefix(PONG(server, server2))

privmsg(from, target, msg) == message_of(from, PRIVMSG(target, msg))

notice(from, target, msg) == message_of(from, NOTICE(target, msg))

error(reason) == message_of_noprefix(ERROR(reason))

\* struct IrcMessage (the OutboundChatEvent)
IrcMessage(message_type, from, target, text) ==
    [message_type |-> message_type, from |-> from, target |-> target, text |-> text]

FromIrcMessage_AlwaysPrivmsg(message) ==
    LET lines == split(message.text, LF)
    IN [i \in 1..Len(lines) |-> privmsg(message.from, message.target, lines[i])]

\* impl From<IrcMessage> for Vec<Message>: one message per line; the value
\* has a panic outcome as an element when building a line panicked
FromIrcMessage(message) ==
    LET lines == split(message.text, LF)
    IN [i \in 1..Len(lines) |->
           IF message.message_type = "Privmsg"
           THEN privmsg(message.from, message.target, lines[i])
           ELSE notice(message.from, message.target, lines[i])]

VecPanicked(v) == \E i \in 1..Len(v) : IsPanic(v[i])

(***************************************************************************)
(* Builder harness: the builders applied to inputs drawn from bounded sets *)
(***************************************************************************)
Room == <<35, 114>>                \* "#r", a channel name
Bob  == <<98>>                     \* "b", a nickname
Nicknames == StringsUpTo({97, 233}, MaxNickLen)     \* over 'a' and U+00E9
Texts     == StringsUpTo({97, LF}, MaxTextLen)      \* over 'a' and '\n'
Events    == {IrcMessage(k, f, t, x) :
                 k \in {"Privmsg", "Notice"}, f \in Nicknames,
                 t \in {Room, Bob}, x \in Texts}

BuildFrom ==
    /\ call.fn = "none"
    /\ \E ev \in Events :
        /\ call' = [fn |-> "from", message |-> ev]
        /\ ret' = FromIrcMessage(ev)
    /\ UNCHANGED <<readVars, writeVars, backVars, queue, enq>>

BuildPrefixed ==
    /\ call.fn = "none"
    /\ \E f \in Nicknames, t \in {Room, Bob}, k \in {"privmsg", "notice"} :
        /\ call' = [fn |-> k, from |-> f, target |-> t, msg |-> <<97>>]
        /\ ret' = <<IF k = "privmsg" THEN privmsg(f, t, <<97>>) ELSE notice(f, t, <<97>>)>>
    /\ UNCHANGED <<readVars, writeVars, backVars, queue, enq>>

BuildNoPrefix ==
    /\ call.fn = "none"
    /\ \E k \in {"pong", "error", "raw_msg"}, s \in {<<97>>, <<>>}, o \in {<<>>, <<Bob>>} :
        /\ call' = [fn |-> k, arg |-> s, arg2 |-> o]
        /\ ret' = <<CASE k = "pong"  -> pong(s, o)
                      [] k = "error" -> error(s)
                      [] OTHER       -> raw_msg(s)>>
    /\ UNCHANGED <<readVars, writeVars, backVars, queue, enq>>

(***************************************************************************)
(* The Outbound Queue: a bounded multi-producer channel whose receiver the *)
(* Write Loop owns.  The producer side (Matrirc::irc().send) suspends      *)
(* while the queue is full and fails when the receiver is gone; a producer *)
(* built on a non-waiting send may also fail on a full queue.              *)
(***************************************************************************)
ReceiverGone_Never == FALSE

ReceiverGone == wpc = "Done"

Enqueue(m) ==
    /\ ~ReceiverGone
    /\ Len(queue) < QueueCap
    /\ queue' = Append(queue, m)
    /\ enq' = Append(enq, m)

EnqueueFails ==
    /\ (ReceiverGone \/ Len(queue) >= QueueCap)
    /\ UNCHANGED <<queue, enq>>

(***************************************************************************)
(* Write Loop: ircd_sync_write                                             *)
(***************************************************************************)
IsError(m) == m.command.name = "ERROR"

WriteRecv_Skips ==
    /\ wpc = "Draining"
    /\ queue # <<>>
    /\ queue' = Tail(queue)
    /\ UNCHANGED <<wpc, wmsg, writing, wres, wire, closed, enq>>
    /\ UNCHANGED <<buildVars, readVars, backVars>>

\* irc_sink_rx.recv() yields Some(message); writer.send(message) starts
WriteRecv ==
    /\ wpc = "Draining"
    /\ queue # <<>>
    /\ wmsg' = <<Head(queue)>>
    /\ queue' = Tail(queue)
    /\ wpc' = "Sending"
    /\ writing' = writing \cup {"WriteLoop"}
    /\ UNCHANGED <<wres, wire, closed, enq>>
    /\ UNCHANGED <<buildVars, readVars, backVars>>

WriteRecvNone_Early ==
    /\ wpc = "Draining"
    /\ senders = "dropped"
    /\ wpc' = "Done"
    /\ wres' = "Ok"
    /\ queue' = <<>>
    /\ UNCHANGED <<wmsg, wire, writing, closed, enq>>
    /\ UNCHANGED <<buildVars, readVars, backVars>>

\* irc_sink_rx.recv() yields None: the queue is empty and every sender is gone
WriteRecvNone ==
    /\ wpc = "Draining"
    /\ queue = <<>>
    /\ senders = "dropped"
    /\ wpc' = "Done"
    /\ wres' = "Ok"
    /\ UNCHANGED <<wmsg, wire, writing, closed, queue, enq>>
    /\ UNCHANGED <<buildVars, readVars, backVars>>

WriteSendOk_NoStop ==
    /\ wpc = "Sending"
    /\ wire' = Append(wire, wmsg[1])
    /\ writing' = writing \ {"WriteLoop"}
    /\ wpc' = "Draining"
    /\ wmsg' = <<>>
    /\ UNCHANGED <<wres, closed, queue, enq>>
    /\ UNCHANGED <<buildVars, readVars, backVars>>

\* writer.send(message) completes: on ERROR go on to close, else loop
WriteSendOk ==
    /\ wpc = "Sending"
    /\ wire' = Append(wire, wmsg[1])
    /\ writing' = writing \ {"WriteLoop"}
    /\ wpc' = IF IsError(wmsg[1]) THEN "Closing" ELSE "Draining"
    /\ wmsg' = IF IsError(wmsg[1]) THEN wmsg ELSE <<>>
    /\ UNCHANGED <<wres, closed, queue, enq>>
    /\ UNCHANGED <<buildVars, readVars, backVars>>

WriteSendErr_Continues ==
    /\ wpc = "Sending"
    /\ writing' = writing \ {"WriteLoop"}
    /\ wpc' = "Draining"
    /\ wmsg' = <<>>
    /\ UNCHANGED <<wres, wire, closed, queue, enq>>
    /\ UNCHANGED <<buildVars, readVars, backVars>>

\* writer.send(message) fails: `?` returns the error; the receiver is dropped
WriteSendErr ==
    /\ wpc = "Sending"
    /\ writing' = writing \ {"WriteLoop"}
    /\ wpc' = "Done"
    /\ wres' = "Err"
    /\ wmsg' = <<>>
    /\ queue' = <<>>
    /\ UNCHANGED <<wire, closed, enq>>
    /\ UNCHANGED <<buildVars, readVars, backVars>>

\* writer.close() completes: return Ok(())
WriteCloseOk ==
    /\ wpc = "Closing"
    /\ closed' = TRUE
    /\ wpc' = "Done"
    /\ wres' = "Ok"
    /\ wmsg' = <<>>
    /\ queue' = <<>>
    /\ UNCHANGED <<wire, writing, enq>>
    /\ UNCHANGED <<buildVars, readVars, backVars>>

\* writer.close() fails: `?` returns the error
WriteCloseErr ==
    /\ wpc = "Closing"
    /\ wpc' = "Done"
    /\ wres' = "Err"
    /\ wmsg' = <<>>
    /\ queue' = <<>>
    /\ UNCHANGED <<wire, writing, closed, enq>>
    /\ UNCHANGED <<buildVars, readVars, backVars>>

ircd_sync_write ==
    \/ WriteRecv
    \/ WriteRecvNone
    \/ WriteSendOk
    \/ WriteSendErr
    \/ WriteCloseOk
    \/ WriteCloseErr

(***************************************************************************)
(* Read Loop: ircd_sync_read                                               *)
(***************************************************************************)
Alice == <<97, 108>>               \* "al", the nickname of an inbound prefix
Nick  == <<109, 101>>              \* "me", matrirc.irc().nick, the client's own nickname
Tok   == <<116>>                   \* "t"
Tok2  == <<117>>                   \* "u"
Wave  == <<119>>                   \* "w"
Bye   == <<98, 121, 101>>          \* "bye"
Failures == {<<101>>}              \* the Display text of a to_matrix error

\* a decoded inbound message, as the transport's receive half yields it
Inbound(prefix, command) == [tags |-> <<>>, prefix |-> prefix, command |-> command]
FromAlice == <<Nickname(Alice, Alice, Alice)>>

InboundMsgs ==
    { Inbound(<<>>, PING(Tok, <<>>)),
      Inbound(FromAlice, PING(Tok, <<Tok2>>)),
      Inbound(FromAlice, PRIVMSG(Room, Wave)),
      Inbound(<<>>, PRIVMSG(Bob, ActionMarker \o Wave \o <<SOH>>)),
      Inbound(FromAlice, NOTICE(Bob, ActionMarker \o Wave)),
      Inbound(<<>>, PONG(Tok, <<>>)),
      Inbound(<<>>, ERROR(Bye)),
      Inbound(FromAlice, Raw(Wave, <<>>)) }

\* str::is_channel_name of the irc library
is_channel_name(s) == Len(s) > 0 /\ s[1] \in {35, 38, 43, 33}

\* Message::source_nickname of the irc library
source_nickname(m) == IF m.prefix = <<>> THEN <<>> ELSE <<m.prefix[1].nick>>

\* Message::response_target of the irc library
response_target(m) ==
    IF m.command.name \in {"PRIVMSG", "NOTICE"} /\ is_channel_name(m.command.target)
    THEN <<m.command.target>>
    ELSE source_nickname(m)

unwrap_or(o, d) == IF o = <<>> THEN d ELSE o[1]

\* the (message_type, msg) pair a PRIVMSG text is forwarded as
classify(msg) ==
    LET emote == strip_prefix(msg, ActionMarker)
    IN IF emote # <<>>
       THEN [message_type |-> "Emote", msg |-> emote[1]]
       ELSE [message_type |-> "Text", msg |-> msg]

\* one to_matrix(&target, message_type, msg) call
ToMatrixCall(target, message_type, msg) ==
    [target |-> target, message_type |-> message_type, msg |-> msg]

FailureNotice_ToSender(m, e) ==
    notice(Nick, unwrap_or(source_nickname(m), Matrirc), CouldNotForward \o e)

\* the notice reporting a forwarding failure e for inbound message m
FailureNotice(m, e) ==
    notice(Nick, unwrap_or(response_target(m), Matrirc), CouldNotForward \o e)

\* the message the Read Loop builds for the queue: the pong of a PING, the
\* failure notice of a PRIVMSG or NOTICE
BuildReply ==
    /\ call.fn = "none"
    /\ \E m \in InboundMsgs, e \in Failures :
        /\ m.command.name \in {"PING", "PRIVMSG", "NOTICE"}
        /\ call' = [fn |-> "reply", message |-> m, failure |-> e]
        /\ ret' = <<IF m.command.name = "PING"
                    THEN pong(m.command.server, m.command.server2)
                    ELSE FailureNotice(m, e)>>
    /\ UNCHANGED <<readVars, writeVars, backVars, queue, enq>>

ReadRecv_NoticeClassified ==
    /\ rpc = "Listening"
    /\ nread < MaxInbound
    /\ \E m \in InboundMsgs :
          /\ nread' = nread + 1
          /\ CASE m.command.name = "PING" ->
                    /\ rmsg' = <<m>>
                    /\ rout' = <<pong(m.command.server, m.command.server2)>>
                    /\ rpc' = "EnqPong"
                    /\ UNCHANGED forwarded
               [] m.command.name = "PRIVMSG" ->
                    /\ rmsg' = <<m>>
                    /\ forwarded' = Append(forwarded,
                          ToMatrixCall(m.command.target,
                                       classify(m.command.msg).message_type,
                                       classify(m.command.msg).msg))
                    /\ rpc' = "Forwarding"
                    /\ UNCHANGED rout
               [] m.command.name = "NOTICE" ->
                    /\ rmsg' = <<m>>
                    /\ forwarded' = Append(forwarded,
                          ToMatrixCall(m.command.target, "Notice",
                                       classify(m.command.msg).msg))
                    /\ rpc' = "Forwarding"
                    /\ UNCHANGED rout
               [] OTHER ->
                    /\ UNCHANGED <<rmsg, rout, rpc, forwarded>>
    /\ UNCHANGED <<rres, queue, enq>>
    /\ UNCHANGED <<buildVars, wpc, wres, wmsg, wire, writing, closed, backVars>>
    /\ UNCHANGED <<stream, warned>>

ReadRecv_PongEchoed ==
    /\ rpc = "Listening"
    /\ nread < MaxInbound
    /\ \E m \in InboundMsgs :
          /\ nread' = nread + 1
          /\ CASE m.command.name \in {"PING", "PONG"} ->
                    /\ rmsg' = <<m>>
                    /\ rout' = <<pong(m.command.server, m.command.server2)>>
                    /\ rpc' = "EnqPong"
                    /\ UNCHANGED forwarded
               [] m.command.name = "PRIVMSG" ->
                    /\ rmsg' = <<m>>
                    /\ forwarded' = Append(forwarded,
                          ToMatrixCall(m.command.target,
                                       classify(m.command.msg).message_type,
                                       classify(m.command.msg).msg))
                    /\ rpc' = "Forwarding"
                    /\ UNCHANGED rout
               [] m.command.name = "NOTICE" ->
                    /\ rmsg' = <<m>>
                    /\ forwarded' = Append(forwarded,
                          ToMatrixCall(m.command.target, "Notice", m.command.msg))
                    /\ rpc' = "Forwarding"
                    /\ UNCHANGED rout
               [] OTHER ->
                    /\ UNCHANGED <<rmsg, rout, rpc, forwarded>>
    /\ UNCHANGED <<rres, queue, enq>>
    /\ UNCHANGED <<buildVars, wpc, wres, wmsg, wire, writing, closed, backVars>>
    /\ UNCHANGED <<stream, warned>>

\* reader.try_next() yields Some(message); the match on its command runs up
\* to the first await of the chosen arm
ReadRecv ==
    /\ rpc = "Listening"
    /\ nread < MaxInbound
    /\ \E m \in InboundMsgs :
          /\ nread' = nread + 1
          /\ CASE m.command.name = "PING" ->
                    /\ rmsg' = <<m>>
                    /\ rout' = <<pong(m.command.server, m.command.server2)>>
                    /\ rpc' = "EnqPong"
                    /\ UNCHANGED forwarded
               [] m.command.name = "PRIVMSG" ->
                    /\ rmsg' = <<m>>
                    /\ forwarded' = Append(forwarded,
                          ToMatrixCall(m.command.target,
                                       classify(m.command.msg).message_type,
                                       classify(m.command.msg).msg))
                    /\ rpc' = "Forwarding"
                    /\ UNCHANGED rout
               [] m.command.name = "NOTICE" ->
                    /\ rmsg' = <<m>>
                    /\ forwarded' = Append(forwarded,
                          ToMatrixCall(m.command.target, "Notice", m.command.msg))
                    /\ rpc' = "Forwarding"
                    /\ UNCHANGED rout
               [] OTHER ->
                    /\ UNCHANGED <<rmsg, rout, rpc, forwarded>>
    /\ UNCHANGED <<rres, queue, enq>>
    /\ UNCHANGED <<buildVars, wpc, wres, wmsg, wire, writing, closed, backVars>>
    /\ UNCHANGED <<stream, warned>>

\* reader.try_next() yields None: the receive stream ended
ReadEnd ==
    /\ rpc = "Listening"
    /\ rpc' = "Done"
    /\ rres' = "Ok"
    /\ UNCHANGED <<rmsg, rout, nread, forwarded, queue, enq>>
    /\ UNCHANGED <<buildVars, wpc, wres, wmsg, wire, writing, closed, backVars>>
    /\ stream' = "ended"
    /\ UNCHANGED warned

ReadError_Swallowed ==
    /\ rpc = "Listening"
    /\ rpc' = "Done"
    /\ rres' = "Ok"
    /\ UNCHANGED <<rmsg, rout, nread, forwarded, queue, enq>>
    /\ UNCHANGED <<buildVars, wpc, wres, wmsg, wire, writing, closed, backVars>>
    /\ stream' = "failed"
    /\ UNCHANGED warned

\* reader.try_next() yields an error: `?` returns it
ReadError ==
    /\ rpc = "Listening"
    /\ rpc' = "Done"
    /\ rres' = "Err"
    /\ UNCHANGED <<rmsg, rout, nread, forwarded, queue, enq>>
    /\ UNCHANGED <<buildVars, wpc, wres, wmsg, wire, writing, closed, backVars>>
    /\ stream' = "failed"
    /\ UNCHANGED warned

ReadPongOk_Direct ==
    /\ rpc = "EnqPong"
    /\ wire' = Append(wire, rout[1])
    /\ rpc' = "Listening"
    /\ rmsg' = <<>>
    /\ rout' = <<>>
    /\ UNCHANGED <<rres, nread, forwarded, queue, enq>>
    /\ UNCHANGED <<buildVars, wpc, wres, wmsg, writing, closed, backVars>>
    /\ UNCHANGED <<stream, warned>>

\* matrirc.irc().send(pong(..)) succeeds
ReadPongOk ==
    /\ rpc = "EnqPong"
    /\ Enqueue(rout[1])
    /\ rpc' = "Listening"
    /\ rmsg' = <<>>
    /\ rout' = <<>>
    /\ UNCHANGED <<rres, nread, forwarded>>
    /\ UNCHANGED <<buildVars, wpc, wres, wmsg, wire, writing, closed, backVars>>
    /\ UNCHANGED <<stream, warned>>

ReadPongErr_Swallowed ==
    /\ rpc = "EnqPong"
    /\ EnqueueFails
    /\ rpc' = "Listening"
    /\ rmsg' = <<>>
    /\ rout' = <<>>
    /\ UNCHANGED <<rres, nread, forwarded>>
    /\ UNCHANGED <<buildVars, wpc, wres, wmsg, wire, writing, closed, backVars>>
    /\ UNCHANGED <<stream, warned>>

\* matrirc.irc().send(pong(..)) fails: `?` returns the error
ReadPongErr ==
    /\ rpc = "EnqPong"
    /\ EnqueueFails
    /\ rpc' = "Done"
    /\ rres' = "Err"
    /\ UNCHANGED <<rmsg, rout, nread, forwarded>>
    /\ UNCHANGED <<buildVars, wpc, wres, wmsg, wire, writing, closed, backVars>>
    /\ UNCHANGED <<stream, warned>>

\* to_matrix(..) returns Ok
ToMatrixOk ==
    /\ rpc = "Forwarding"
    /\ rpc' = "Listening"
    /\ rmsg' = <<>>
    /\ UNCHANGED <<rres, rout, nread, forwarded, queue, enq>>
    /\ UNCHANGED <<buildVars, wpc, wres, wmsg, wire, writing, closed, backVars>>
    /\ UNCHANGED <<stream, warned>>

\* to_matrix(..) returns Err(e): build the notice and start enqueueing it
ToMatrixErr ==
    /\ rpc = "Forwarding"
    /\ \E e \in Failures :
          IF IsPanic(FailureNotice(rmsg[1], e))
          THEN /\ rpc' = "Done"
               /\ rres' = "Panic"
               /\ UNCHANGED rout
          ELSE /\ rpc' = "EnqNotice"
               /\ rout' = <<FailureNotice(rmsg[1], e)>>
               /\ UNCHANGED rres
    /\ UNCHANGED <<rmsg, nread, forwarded, queue, enq>>
    /\ UNCHANGED <<buildVars, wpc, wres, wmsg, wire, writing, closed, backVars>>
    /\ warned' = Append(warned, "Could not forward message")
    /\ UNCHANGED stream

\* matrirc.irc().send(notice(..)) succeeds
ReadNoticeOk ==
    /\ rpc = "EnqNotice"
    /\ Enqueue(rout[1])
    /\ rpc' = "Listening"
    /\ rmsg' = <<>>
    /\ rout' = <<>>
    /\ UNCHANGED <<rres, nread, forwarded>>
    /\ UNCHANGED <<buildVars, wpc, wres, wmsg, wire, writing, closed, backVars>>
    /\ UNCHANGED <<stream, warned>>

ReadNoticeErr_Fatal ==
    /\ rpc = "EnqNotice"
    /\ EnqueueFails
    /\ rpc' = "Done"
    /\ rres' = "Err"
    /\ UNCHANGED <<rmsg, rout, nread, forwarded>>
    /\ UNCHANGED <<buildVars, wpc, wres, wmsg, wire, writing, closed, backVars>>
    /\ UNCHANGED <<stream, warned>>

\* matrirc.irc().send(notice(..)) fails: only logged
ReadNoticeErr ==
    /\ rpc = "EnqNotice"
    /\ EnqueueFails
    /\ rpc' = "Listening"
    /\ rmsg' = <<>>
    /\ rout' = <<>>
    /\ UNCHANGED <<rres, nread, forwarded>>
    /\ UNCHANGED <<buildVars, wpc, wres, wmsg, wire, writing, closed, backVars>>
    /\ warned' = Append(warned, "Furthermore, reply errored too")
    /\ UNCHANGED stream

ircd_sync_read ==
    \/ ReadRecv
    \/ ReadEnd
    \/ ReadError
    \/ ReadPongOk
    \/ ReadPongErr
    \/ ToMatrixOk
    \/ ToMatrixErr
    \/ ReadNoticeOk
    \/ ReadNoticeErr

(***************************************************************************)
(* The backend-facing layer: the other producer of the Outbound Queue      *)
(***************************************************************************)
RelayEvents == { IrcMessage("Privmsg", Alice, Room, Wave) }

Signals == { error(Bye) }

\* a chat event is converted; a conversion that panics enqueues nothing
BackendRelay ==
    /\ senders = "open"
    /\ bout = <<>>
    /\ nrelay < MaxRelay
    /\ \E ev \in RelayEvents :
          bout' = IF VecPanicked(FromIrcMessage(ev)) THEN <<>> ELSE FromIrcMessage(ev)
    /\ nrelay' = nrelay + 1
    /\ UNCHANGED <<senders, queue, enq>>
    /\ UNCHANGED <<buildVars, readVars, writeVars>>

\* a control message (the Error shutdown signal, a raw line) is to be sent
BackendSignal ==
    /\ senders = "open"
    /\ bout = <<>>
    /\ nrelay < MaxRelay
    /\ \E m \in Signals : bout' = <<m>>
    /\ nrelay' = nrelay + 1
    /\ UNCHANGED <<senders, queue, enq>>
    /\ UNCHANGED <<buildVars, readVars, writeVars>>

BackendEnqOk ==
    /\ bout # <<>>
    /\ Enqueue(Head(bout))
    /\ bout' = Tail(bout)
    /\ UNCHANGED <<nrelay, senders>>
    /\ UNCHANGED <<buildVars, readVars, writeVars>>

BackendEnqErr ==
    /\ bout # <<>>
    /\ EnqueueFails
    /\ bout' = <<>>
    /\ UNCHANGED <<nrelay, senders>>
    /\ UNCHANGED <<buildVars, readVars, writeVars>>

\* every producer handle is dropped: the Read Loop has returned and the
\* backend-facing layer has nothing left to send
DropSenders ==
    /\ senders = "open"
    /\ rpc = "Done"
    /\ bout = <<>>
    /\ senders' = "dropped"
    /\ UNCHANGED <<bout, nrelay, queue, enq>>
    /\ UNCHANGED <<buildVars, readVars, writeVars>>

Backend ==
    \/ BackendRelay
    \/ BackendSignal
    \/ BackendEnqOk
    \/ BackendEnqErr
    \/ DropSenders

(***************************************************************************)
(* Specifications                                                          *)
(***************************************************************************)
Init ==
    /\ call = [fn |-> "none"]
    /\ ret = <<>>
    /\ rpc = "Listening"
    /\ rres = "running"
    /\ rmsg = <<>>
    /\ rout = <<>>
    /\ nread = 0
    /\ forwarded = <<>>
    /\ stream = "open"
    /\ warned = <<>>
    /\ queue = <<>>
    /\ enq = <<>>
    /\ wpc = "Draining"
    /\ wres = "running"
    /\ wmsg = <<>>
    /\ wire = <<>>
    /\ writing = {}
    /\ closed = FALSE
    /\ bout = <<>>
    /\ nrelay = 0
    /\ senders = "open"

Next == ircd_sync_read \/ ircd_sync_write \/ Backend

Spec == Init /\ [][Next]_vars

NextBuild == BuildFrom \/ BuildPrefixed \/ BuildNoPrefix \/ BuildReply

SpecBuild == Init /\ [][NextBuild]_vars

\* The loops under the scheduling the code guarantees: an enqueue completes
\* once the queue has room and fails once the receiver is gone, and recv()
\* returns a queued message.  Nothing obliges the transport to take or
\* refuse a write, nor a full queue to turn an enqueue down.
Fairness ==
    /\ WF_vars(ReadNoticeOk)
    /\ WF_vars(ReadNoticeErr /\ ReceiverGone)
    /\ WF_vars(ReadPongOk)
    /\ WF_vars(ReadPongErr /\ ReceiverGone)
    /\ WF_vars(WriteRecv)
    /\ WF_vars(WriteRecvNone)

SpecLive == Init /\ [][Next]_vars /\ Fairness

(***************************************************************************)
(* Properties                                                              *)
(***************************************************************************)
Last(s) == s[Len(s)]
IsPrefix(s, t) == Len(s) <= Len(t) /\ SubSeq(t, 1, Len(s)) = s
Count(c, s) == Cardinality({i \in 1..Len(s) : s[i] = c})
RECURSIVE Join(_, _)
Join(ss, sep) ==
    IF Len(ss) = 0 THEN <<>>
    ELSE IF Len(ss) = 1 THEN ss[1]
    ELSE ss[1] \o <<sep>> \o Join(Tail(ss), sep)
ErrorSent == wire # <<>> /\ IsError(Last(wire))
HoldsError == wmsg # <<>> /\ IsError(wmsg[1])

\* C1 (as stated): whenever the Write Loop terminates after dequeueing an
\* Error message, it has sent that message, closed the send half and reports
\* success.
C1_AlwaysClosesAndSucceeds ==
    [][(HoldsError /\ wpc' = "Done") =>
          (wire' # <<>> /\ IsError(Last(wire')) /\ closed' /\ wres' = "Ok")]_vars

C1_Order ==
    /\ \A i \in 1..(Len(wire) - 1) : ~IsError(wire[i])
    /\ ErrorSent => wpc \in {"Closing", "Done"}
    /\ wpc = "Closing" => (ErrorSent /\ ~closed)
    /\ closed => (ErrorSent /\ wpc = "Done" /\ wres = "Ok")
    /\ (ErrorSent /\ wpc = "Done" /\ wres = "Ok") => closed

C1_Steps ==
    (HoldsError /\ wpc' # wpc) =>
        \/ /\ wpc = "Sending" /\ wpc' = "Closing"
           /\ wire' = Append(wire, wmsg[1]) /\ ~closed'
        \/ /\ wpc = "Closing" /\ wpc' = "Done"
           /\ wire' = wire /\ closed' /\ wres' = "Ok"
        \/ /\ wpc' = "Done" /\ wres' = "Err"
           /\ wire' = wire /\ closed' = closed

\* C1 (amended): once the Write Loop dequeues an Error message it sends it,
\* then closes the send half, then terminates reporting success, unless the
\* send or the close fails, in which case it terminates reporting that
\* failure (a failed send is not followed by a close); in every execution no
\* message is written to the transport after the Error message.
C1_ShutdownOrdering == []C1_Order /\ [][C1_Steps]_vars

\* the Error was sent and the send half closed while messages enqueued
\* behind it were left unsent
C1_Witness == closed /\ wres = "Ok" /\ Len(enq) > Len(wire)

InFlight == IF wpc = "Sending" THEN wmsg ELSE <<>>

C3_WriteExclusion ==
    /\ [](writing \subseteq {"WriteLoop"} /\ Cardinality(writing) <= 1)
    /\ [][wire' # wire =>
             /\ wpc = "Sending" /\ writing = {"WriteLoop"}
             /\ wire' = Append(wire, wmsg[1])
             /\ UNCHANGED readVars]_vars
    /\ [][(rout # <<>> /\ rout' = <<>>) =>
             /\ wire' = wire /\ writing' = writing
             /\ (enq' = enq \/ enq' = Append(enq, rout[1]))]_vars

\* a Pong and a failure Notice of the Read Loop were written by the Write Loop
C3_Witness ==
    /\ \E i \in 1..Len(wire) : wire[i].command.name = "PONG"
    /\ \E i \in 1..Len(wire) : wire[i].command.name = "NOTICE"

Contents(v) == [i \in 1..Len(v) |-> v[i].command.msg]

\* C4: converting an OutboundChatEvent yields (number of '\n' in text) + 1
\* messages whose contents joined with '\n' give back the text.
C4_SplitRoundTrip ==
    call.fn = "from" =>
        /\ ~VecPanicked(ret)
        /\ Len(ret) = Count(LF, call.message.text) + 1
        /\ Join(Contents(ret), LF) = call.message.text

\* C5: every message emitted for an event has the command of the event's
\* kind, the event's target, and the event's from as prefix nickname.
C5_KindAndAddressing ==
    call.fn = "from" =>
        \A i \in 1..Len(ret) :
            ~IsPanic(ret[i]) =>
                /\ ret[i].command.name =
                      (IF call.message.message_type = "Privmsg" THEN "PRIVMSG" ELSE "NOTICE")
                /\ ret[i].command.target = call.message.target
                /\ ret[i].prefix # <<>>
                /\ ret[i].prefix[1].nick = call.message.from

\* a Notice event of two lines from a name with a two-byte character
C5_Witness ==
    /\ call.fn = "from"
    /\ call.message.message_type = "Notice"
    /\ 233 \in {call.message.from[i] : i \in 1..Len(call.message.from)}
    /\ Len(ret) = 2
    /\ ~VecPanicked(ret)

\* C6: building a prefixed message succeeds for any nickname, and the user
\* field has length min(len(nickname), 6) and is the leading part of the
\* nickname.
C6_ShortUser ==
    call.fn \in {"privmsg", "notice"} =>
        /\ ~IsPanic(ret[1])
        /\ len(ret[1].prefix[1].user) = min(len(call.from), UserLen)
        /\ IsPrefix(ret[1].prefix[1].user, call.from)

PongFor(m) ==
    [tags |-> <<>>, prefix |-> <<>>,
     command |-> [name |-> "PONG", server |-> m.command.server,
                  server2 |-> m.command.server2]]

\* C7: an inbound Ping whose enqueue succeeds puts exactly one Pong with the
\* same token and token2 onto the Outbound Queue and does nothing else:
\* no delivery to the routing registry, no write to the transport, and the
\* loop is back in Listening, still running.
C7_KeepaliveReply ==
    /\ [][(rpc = "Listening" /\ rpc' = "EnqPong") =>
             /\ rmsg'[1].command.name = "PING"
             /\ UNCHANGED <<forwarded, enq, queue, wire, writing, rres>>]_vars
    /\ [][(rpc = "EnqPong" /\ rpc' = "Listening") =>
             /\ enq' = Append(enq, PongFor(rmsg[1]))
             /\ queue' = Append(queue, PongFor(rmsg[1]))
             /\ rres' = "running"
             /\ UNCHANGED <<forwarded, wire, writing, closed, wpc, bout>>]_vars
    /\ [](rpc = "EnqPong" => (rmsg # <<>> /\ rmsg[1].command.name = "PING"))
    /\ [][(rpc = "Listening" /\ rmsg' # <<>> /\ rmsg'[1].command.name = "PING")
             => rpc' = "EnqPong"]_vars

\* the Pong for Ping(t, Some(u)) is the only message enqueued and the loop
\* is listening again
C7_Witness ==
    /\ rpc = "Listening" /\ nread = 1
    /\ enq = <<[tags |-> <<>>, prefix |-> <<>>,
                command |-> [name |-> "PONG", server |-> Tok, server2 |-> <<Tok2>>]]>>
    /\ forwarded = <<>> /\ wire = <<>>

\* C8 (as stated): whenever deliver-to-backend fails, exactly one Notice is
\* enqueued for that failure and the loop goes on.
C8_ExactlyOneNotice ==
    [][(rpc = "EnqNotice" /\ rpc' # "EnqNotice") =>
          (rpc' = "Listening" /\ enq' = Append(enq, rout[1]))]_vars

\* C8 (amended): whenever deliver-to-backend fails for an inbound
\* PrivateMessage or Notice, the Read Loop does not terminate, makes exactly
\* one attempt to enqueue a Notice for that failure (none when delivery
\* succeeds), so that one Notice is enqueued when the attempt succeeds and
\* none when it fails, and goes on to process the next inbound messages.
C8_ForwardingFailureRecoverable ==
    /\ [][(rpc = "Forwarding" /\ rpc' # "Forwarding") =>
             /\ rres' = "running"
             /\ UNCHANGED <<enq, queue, nread, forwarded>>
             /\ \/ rpc' = "Listening" /\ rout' = <<>>
                \/ /\ rpc' = "EnqNotice"
                   /\ rout' # <<>>
                   /\ rout'[1].command.name = "NOTICE"]_vars
    /\ [][(rpc = "EnqNotice" /\ rpc' # "EnqNotice") =>
             /\ rpc' = "Listening"
             /\ rres' = "running"
             /\ rout' = <<>>
             /\ UNCHANGED <<nread, forwarded>>
             /\ (enq' = Append(enq, rout[1]) \/ enq' = enq)]_vars
    /\ [][(rpc = "Listening" /\ rout = <<>>) =>
             (enq' # enq => (rpc' = "Listening" /\ enq' = Append(enq, Head(bout))))]_vars

\* after a forwarding failure whose Notice was enqueued, the loop has read
\* the next inbound message
C8_Witness ==
    /\ nread = 2
    /\ rres = "running"
    /\ Len(forwarded) = 1
    /\ \E i \in 1..Len(enq) : enq[i].command.name = "NOTICE"

HasMarker(text) ==
    /\ Len(text) >= 8
    /\ text[1] = 1
    /\ SubSeq(text, 2, 8) = <<65, 67, 84, 73, 79, 78, 32>>
HasControlByte(text) == \E i \in 1..Len(text) : text[i] = 1

\* C9: an inbound PrivateMessage(target, text) makes exactly one
\* deliver-to-backend call with that target; with the marker (0x01 then
\* 'ACTION ') in front the kind is emote and the text is the remainder,
\* with no residual control byte; otherwise kind plain and text unchanged.
C9_PrivmsgClassification ==
    [][(rpc = "Listening" /\ rmsg' # <<>> /\ rmsg'[1].command.name = "PRIVMSG") =>
          LET text == rmsg'[1].command.msg
              c == Last(forwarded')
          IN /\ forwarded' = Append(forwarded, c)
             /\ c.target = rmsg'[1].command.target
             /\ IF HasMarker(text)
                THEN /\ c.message_type = "Emote"
                     /\ c.msg = SubSeq(text, 9, Len(text))
                     /\ ~HasControlByte(c.msg)
                ELSE /\ c.message_type = "Text"
                     /\ c.msg = text]_vars

\* C10: when the enqueue of the Pong fails the Read Loop terminates
\* reporting the error, and once terminated it reads and handles nothing
\* more.
C10_KeepaliveEnqueueFatal ==
    /\ [][(rpc = "EnqPong" /\ rpc' # "EnqPong" /\ enq' = enq) =>
             (rpc' = "Done" /\ rres' = "Err" /\ UNCHANGED <<nread, forwarded>>)]_vars
    /\ [][rpc = "Done" => UNCHANGED readVars]_vars
    /\ [](rpc = "Done" <=> rres # "running")

\* the loop ended with an error while handling the first of the inbound
\* messages, a Ping
C10_Witness ==
    /\ rpc = "Done" /\ rres = "Err"
    /\ rmsg # <<>> /\ rmsg[1].command.name = "PING"
    /\ nread = 1

\* C11: a failed send of any message, an Error message included, ends the
\* Write Loop with that failure: the message is not retried, nothing queued
\* later is sent, and the send half is not closed.
C11_WriteFailureEndsLoop ==
    /\ [][(wpc = "Sending" /\ wpc' # "Sending" /\ wire' = wire) =>
             /\ wpc' = "Done" /\ wres' = "Err"
             /\ ~closed' /\ wmsg' = <<>>]_vars
    /\ [][wpc = "Done" => UNCHANGED writeVars]_vars
    /\ [](wres = "Err" => wpc = "Done")

\* the send of an Error message failed: nothing was written, a message
\* enqueued behind it stays unsent, the send half was not closed
C11_Witness ==
    /\ wpc = "Done" /\ wres = "Err"
    /\ wire = <<>> /\ ~closed
    /\ Len(enq) >= 2 /\ IsError(enq[1])

\* C12 (as stated): once all producers have closed the queue, the Write
\* Loop ends only after sending everything enqueued, reporting success,
\* the send half not closed.
C12_AlwaysDrainsAndSucceeds ==
    [][(senders = "dropped" /\ wpc # "Done" /\ wpc' = "Done") =>
          (wres' = "Ok" /\ ~closed' /\ wire' = enq')]_vars

\* C12 (amended): once all producers have closed the queue, the Write Loop
\* goes on sending the queued messages in order and, when the queue is
\* empty, terminates reporting success without closing the send half,
\* every enqueued message written; it ends before that only by a failed
\* write, reporting the failure, or by an Error message, on the Error path;
\* the send half is closed only on the Error path.
C12_QueueClosure ==
    /\ [][(wpc = "Draining" /\ wpc' = "Done") =>
             /\ senders = "dropped" /\ queue = <<>>
             /\ wres' = "Ok" /\ ~closed'
             /\ wire' = wire /\ wire' = enq']_vars
    /\ [][(senders = "dropped" /\ wpc # "Done" /\ wpc' = "Done") =>
             \/ wpc = "Draining"
             \/ wpc = "Sending" /\ wres' = "Err" /\ wire' = wire
             \/ wpc = "Closing" /\ ErrorSent]_vars
    /\ [][closed' # closed => (wpc = "Closing" /\ ErrorSent /\ closed')]_vars

\* the producers are gone and the loop ended with success, unclosed, two
\* messages written, all that was enqueued
C12_Witness ==
    /\ senders = "dropped"
    /\ wpc = "Done" /\ wres = "Ok" /\ ~closed
    /\ Len(wire) >= 2 /\ wire = enq

\* C13: the Read Loop reports success exactly when the receive stream ended
\* cleanly and the error when a read failed, and reads nothing after
\* either; otherwise only a failed Pong enqueue ends it.
C13_ReadLoopTermination ==
    /\ [](rres = "Ok" <=> stream = "ended")
    /\ [](stream = "failed" => rres = "Err")
    /\ [](stream # "open" => rpc = "Done")
    /\ [][rpc = "Done" => (rpc' = "Done" /\ nread' = nread /\ stream' = stream)]_vars
    /\ [][(rpc # "Done" /\ rpc' = "Done") =>
             \/ rpc = "Listening" /\ stream' # "open" /\ nread' = nread
             \/ /\ rpc = "EnqPong" /\ rres' = "Err" /\ enq' = enq
                /\ rmsg[1].command.name = "PING"]_vars

\* the stream ended cleanly after two messages, one of them a forwarding
\* failure, and the loop reported success
C13_Witness ==
    /\ stream = "ended" /\ rres = "Ok"
    /\ nread = 2 /\ warned # <<>>

ReplyErrored == "Furthermore, reply errored too"

\* C14: when deliver-to-backend fails and the enqueue of the failure Notice
\* fails too, the Read Loop only logs it: it neither terminates nor reports
\* an error, retries neither the forward nor the notice, and is back in
\* Listening for the next inbound message.
C14_SecondaryFailureSwallowed ==
    /\ [][(rpc = "EnqNotice" /\ rpc' # "EnqNotice" /\ enq' = enq) =>
             /\ rpc' = "Listening" /\ rres' = "running"
             /\ rout' = <<>> /\ rmsg' = <<>>
             /\ warned' = Append(warned, ReplyErrored)
             /\ UNCHANGED <<forwarded, nread, queue, stream>>]_vars
    /\ [][warned' # warned => rpc' # rpc]_vars
    /\ [](Cardinality({i \in 1..Len(warned) : warned[i] = ReplyErrored})
             <= Len(forwarded))

\* both failures were logged and the loop is handling the next inbound
\* message, a Ping
C14_Witness ==
    /\ Len(warned) = 2 /\ warned[2] = ReplyErrored
    /\ rpc = "EnqPong" /\ rres = "running"
    /\ Len(forwarded) = 1

\* C15: after a forwarding failure the Read Loop always eventually returns
\* to waiting for the next inbound message: the enqueue of the failure
\* Notice never blocks it forever, the queue full or closed, the Write Loop
\* stopped or stalled.
C15_NoticeEnqueueNeverBlocks ==
    (rpc = "EnqNotice") ~> (rpc = "Listening")

\* C16: the Notice enqueued after a forwarding failure is addressed to the
\* inbound message's reply target (its target when that is a channel, else
\* the nickname of its prefix) and to 'matrirc' when there is none; its
\* body is 'Could not forward: ' followed by the failure text.
C16_FailureNoticeAddressing ==
    [][(rpc = "EnqNotice" /\ rpc' = "Listening" /\ enq' # enq) =>
          LET m == rmsg[1]
              n == Last(enq')
          IN /\ Len(enq') = Len(enq) + 1
             /\ n.command.name = "NOTICE"
             /\ n.command.target =
                   (IF is_channel_name(m.command.target) THEN m.command.target
                    ELSE IF m.prefix # <<>> THEN m.prefix[1].nick
                    ELSE <<109, 97, 116, 114, 105, 114, 99>>)
             /\ \E e \in Failures :
                   n.command.msg =
                      <<67, 111, 117, 108, 100, 32, 110, 111, 116, 32,
                        102, 111, 114, 119, 97, 114, 100, 58, 32>> \o e]_vars

\* failure notices were enqueued for a channel message and for a message
\* without reply target, the latter addressed to the fallback name
C16_Witness ==
    /\ Len(enq) = 2
    /\ enq[1].command.name = "NOTICE" /\ enq[1].command.target = Room
    /\ enq[2].command.name = "NOTICE" /\ enq[2].command.target = Matrirc

\* C17: an inbound Notice(target, text) makes exactly one deliver-to-backend
\* call, with that target, kind notice and the text as received, a leading
\* action marker left in place.
C17_NoticeForwarding ==
    /\ [][(nread' # nread /\ rmsg' # <<>> /\ rmsg'[1].command.name = "NOTICE") =>
             /\ rpc' = "Forwarding"
             /\ forwarded' = Append(forwarded,
                   [target       |-> rmsg'[1].command.target,
                    message_type |-> "Notice",
                    msg          |-> rmsg'[1].command.msg])]_vars
    /\ [][nread' = nread => forwarded' = forwarded]_vars

\* a Notice whose text begins with the action marker was forwarded, marker
\* and all, and its handling is over
C17_Witness ==
    /\ rpc = "Listening"
    /\ Len(forwarded) = 1
    /\ forwarded[1].message_type = "Notice"
    /\ HasMarker(forwarded[1].msg)

\* C18: an inbound message whose command is neither Ping, PrivateMessage
\* nor Notice changes nothing but the count of messages read: nothing is
\* enqueued, nothing delivered, no error reported, and the Read Loop is in
\* Listening again.
C18_UnrecognizedInert ==
    /\ [][(nread' # nread /\ rmsg' # <<>>) =>
             rmsg'[1].command.name \in {"PING", "PRIVMSG", "NOTICE"}]_vars
    /\ [][(nread' # nread /\ rmsg' = <<>>) =>
             /\ rpc' = "Listening" /\ rres' = "running"
             /\ UNCHANGED <<enq, queue, forwarded, rout, warned, stream, wire>>]_vars

\* two unrecognized messages were read and nothing else happened
C18_Witness ==
    /\ nread = 2 /\ rpc = "Listening" /\ rres = "running"
    /\ rmsg = <<>> /\ enq = <<>> /\ forwarded = <<>> /\ warned = <<>>

\* C19: a message built as Pong, Error or Raw has no prefix; a message
\* built as PrivateMessage or Notice has a prefix with the given sender as
\* nickname and 'matrirc' as host; what the Read Loop builds for the queue
\* is a Pong or a Notice and has no prefix exactly when it is a Pong.
C19_PrefixInvariant ==
    /\ call.fn \in {"pong", "error", "raw_msg"} =>
          /\ ret[1].prefix = <<>>
          /\ ret[1].command.name =
                (CASE call.fn = "pong" -> "PONG"
                   [] call.fn = "error" -> "ERROR"
                   [] OTHER -> "Raw")
    /\ call.fn \in {"privmsg", "notice"} =>
          (~IsPanic(ret[1]) =>
              /\ ret[1].command.name =
                    (IF call.fn = "privmsg" THEN "PRIVMSG" ELSE "NOTICE")
              /\ ret[1].prefix # <<>>
              /\ ret[1].prefix[1].nick = call.from
              /\ ret[1].prefix[1].host = <<109, 97, 116, 114, 105, 114, 99>>)
    /\ call.fn = "from" =>
          \A i \in 1..Len(ret) :
              ~IsPanic(ret[i]) =>
                 /\ ret[i].prefix # <<>>
                 /\ ret[i].prefix[1].host = <<109, 97, 116, 114, 105, 114, 99>>
    /\ call.fn = "reply" =>
          /\ ~IsPanic(ret[1])
          /\ ret[1].command.name \in {"PONG", "NOTICE"}
          /\ ret[1].prefix = <<>> <=> ret[1].command.name = "PONG"
          /\ ret[1].command.name = "PONG" <=> call.message.command.name = "PING"

\* the Read Loop's failure notice: a Notice with the client's own nickname
\* and host 'matrirc' as prefix
C19_Witness ==
    /\ call.fn = "reply"
    /\ ret[1].command.name = "NOTICE"
    /\ ret[1].prefix = <<Nickname(Nick, Nick, Matrirc)>>

\* C20: once the Write Loop has terminated, the enqueue of a Pong ends the
\* Read Loop with an error, the enqueue of a failure Notice fails and
\* leaves it running in Listening, an unrecognized command leaves it
\* running, and nothing more is enqueued or written.
C20_HalfOpen ==
    /\ [][(wpc = "Done" /\ rpc = "EnqPong" /\ rpc' # rpc) =>
             (rpc' = "Done" /\ rres' = "Err")]_vars
    /\ [][(wpc = "Done" /\ rpc = "EnqNotice" /\ rpc' # rpc) =>
             (rpc' = "Listening" /\ rres' = "running")]_vars
    /\ [][(wpc = "Done" /\ nread' # nread /\ rmsg' = <<>>) =>
             (rpc' = "Listening" /\ rres' = "running")]_vars
    /\ [][wpc = "Done" => (wire' = wire /\ enq' = enq)]_vars

\* the Write Loop ended after its only message; then a forward failed, its
\* notice could not be enqueued, and the next Ping ended the Read Loop
C20_Witness ==
    /\ wpc = "Done" /\ queue = <<>> /\ Len(enq) = 1 /\ wire = enq
    /\ Len(warned) = 2 /\ warned[2] = ReplyErrored
    /\ rpc = "Done" /\ rres = "Err" /\ nread = 2
    /\ rmsg # <<>> /\ rmsg[1].command.name = "PING"

====
